---- MODULE Spec2Model ----
(***************************************************************************)
(* A model of the spot service (src/main.rs): the startup sequence of      *)
(* main, the layered configuration load, the router built by app, the      *)
(* hyper server run with_graceful_shutdown(shutdown_signal()), the two     *)
(* signal listeners raced by tokio::select!, and the telemetry pipeline    *)
(* that shutdown_signal shuts down.                                        *)
(*                                                                         *)
(* The main task is one sequential thread of control; `pc` is its          *)
(* position.  Connection tasks (one per accepted connection) run on the    *)
(* runtime's worker threads: each reads the requests of its connection,    *)
(* one after another, and answers them.  The operating system delivers     *)
(* signals at any time.                                                    *)
(***************************************************************************)
EXTENDS Naturals, Sequences, FiniteSets, TLC

\* ------------------------------------------------------------ bounds
\* How many requests the clients send in one run.
MaxReq == 2
\* How many connections the clients open in one run.
MaxConn == 2
\* How many signals the operating system delivers in one run.
MaxSignals == 2
\* How many transmissions of the exporter fail in one run.
MaxExporterErrors == 1

Reqs == 1..MaxReq
Conns == 1..MaxConn
NoConn == 0

\* ------------------------------------------------------------ signals
\* tokio::signal::ctrl_c() listens for SIGINT, SignalKind::terminate() for
\* SIGTERM.
Sigs == {"INT", "TERM"}
NoSig == "none"

\* ------------------------------------------------------------ configuration
\* A value of the configuration file that is not a scalar (a table): the Config
\* holds it, try_deserialize::<HashMap<String, String>> refuses it.
Table == "<table>"

Keys == {"port", "host"}
FileVals == {"4000", Table}
EnvVals == {"5000"}

\* Environment variable names, written <<prefix, rest>> for PREFIX_REST.
RustLog == <<"RUST", "LOG">>
EnvNames == {<<"SPOT", "PORT">>, <<"SPOT", "HOST">>, <<"OTHER", "PORT">>, RustLog}

\* The log filter main falls back to, and the ones a user sets in RUST_LOG
\* (the last one is the variable set to the empty string).
DefaultLogFilter == "opentelemetry=debug,spot=debug,tower_http=debug"
LogFilters == {"info", "warn", ""}
NoLogFilter == "<unset>"

\* The levels of tracing, the most severe first.
Levels == <<"ERROR", "WARN", "INFO", "DEBUG", "TRACE">>
Off == "OFF"
Rank(level) == CHOOSE i \in 1..Len(Levels) : Levels[i] = level

\* EnvFilter::new(filter): the most verbose level the filter lets through for
\* an event of the target, or Off.  A bare level holds for every target; the
\* default expression names three targets; with no directive at all the filter
\* falls back to ERROR.
MaxLevel(filter, target) ==
  CASE filter = DefaultLogFilter ->
         IF target \in {"opentelemetry", "spot", "tower_http"} THEN "DEBUG" ELSE Off
    [] filter = "info" -> "INFO"
    [] filter = "warn" -> "WARN"
    [] filter = "" -> "ERROR"
    [] OTHER -> Off

\* The subscriber records an event of the target at the level; a tracing macro
\* evaluates its arguments only when its event is enabled.
Enabled(filter, target, level) ==
  /\ MaxLevel(filter, target) # Off
  /\ Rank(level) <= Rank(MaxLevel(filter, target))

\* The target of the events main emits: the crate's name.
Crate == "spot"

\* The partial functions from K to V.
PartialFns(K, V) == UNION {[D -> V] : D \in SUBSET K}

EmptyMap == [k \in {} |-> ""]

\* The file named "spot": absent, present but not parseable, or a key/value map.
FileInputs ==
  {[kind |-> "missing", map |-> EmptyMap], [kind |-> "unparseable", map |-> EmptyMap]}
    \cup {[kind |-> "ok", map |-> m] : m \in PartialFns(Keys, FileVals)}

EnvInputs ==
  {e \in PartialFns(EnvNames, EnvVals \cup LogFilters) :
     \A n \in DOMAIN e : (n = RustLog) <=> (e[n] \in LogFilters)}

\* str::to_lowercase on the names that occur.
ToLower(s) ==
  CASE s = "SPOT" -> "spot"
    [] s = "OTHER" -> "other"
    [] s = "PORT" -> "port"
    [] s = "HOST" -> "host"
    [] s = "RUST" -> "rust"
    [] s = "LOG" -> "log"
    [] OTHER -> s

\* config::Environment::with_prefix("SPOT"): a variable is taken when its
\* lower-cased name starts with "spot_"; its key is the rest, lower-cased.
EnvPrefix == "SPOT"

EnvSelected(e) == {n \in DOMAIN e : ToLower(n[1]) = ToLower(EnvPrefix)}

EnvSource(e) ==
  [k \in {ToLower(n[2]) : n \in EnvSelected(e)} |->
     e[CHOOSE n \in EnvSelected(e) : ToLower(n[2]) = k]]

\* config::File::with_name("spot"): the file's own map (the source is required).
FileSource(f) == f.map

\* One source collected into the cache: every key of the source is set, replacing
\* what the cache held under it.
CollectTo(cache, src) ==
  [k \in DOMAIN cache \cup DOMAIN src |-> IF k \in DOMAIN src THEN src[k] ELSE cache[k]]

\* Build with the sources collected in the wrong order: the file over the
\* environment.
BuildFileLast(f, e) == CollectTo(CollectTo(EmptyMap, EnvSource(e)), FileSource(f))

\* ConfigBuilder::build with the two sources in the order main adds them.
Build(f, e) == CollectTo(CollectTo(EmptyMap, FileSource(f)), EnvSource(e))

\* Config::try_deserialize::<HashMap<String, String>> succeeds when every value
\* converts to a string.
Deserializable(m) == \A k \in DOMAIN m : m[k] # Table

\* ------------------------------------------------------------ router
\* A router maps each path to the layers around its handler, innermost first.
EmptyRouter == [p \in {} |-> <<>>]

\* Router::route adds a path with no layer yet.
Route(r, path) == [p \in DOMAIN r \cup {path} |-> IF p \in DOMAIN r THEN r[p] ELSE <<>>]

\* Router::layer wraps the routes added so far; a later layer is further out.
Layer(r, l) == [p \in DOMAIN r |-> Append(r[p], l)]

app ==
  Route(Layer(Layer(Route(EmptyRouter, "/"), "opentelemetry_tracing_layer"), "TraceLayer"),
        "/health")

\* ------------------------------------------------------------ handler
\* The paths clients ask for (all with GET).
Paths == {"/", "/health", "/other"}
NoPath == ""

\* main.rs 12-14: health() answers 200 with the JSON body {"status":"UP"}.
UpBody == "{\"status\":\"UP\"}"
health == [status |-> 200, body |-> UpBody]

\* The router's answer for a path no route matches.
NotFound == [status |-> 404, body |-> ""]
NoResponse == [status |-> 0, body |-> ""]

\* A router that lost the route added after the layers.
ServeRootOnly(rt, p) == IF p = "/" THEN health ELSE NotFound

\* The router serves a GET: the handler of the route that matches the path.
Serve(rt, p) == IF p \in DOMAIN rt THEN health ELSE NotFound

\* ------------------------------------------------------------ address
NoAddr == [host |-> "", port |-> 0]
DefaultPort == 3000
ListenAddr == [host |-> "0.0.0.0", port |-> DefaultPort]

\* ------------------------------------------------------------ state
VARIABLES
  pc,               \* the main task's position in main and shutdown_signal
  exit,             \* "running", or how the process ended
  error,            \* the fatal error that ended the process, or NoError
  file,             \* the configuration file "spot" (an input)
  env,              \* the process environment (an input)
  errorHandler,     \* the global OpenTelemetry error handler is registered
  pipelineInstalls, \* how many times the trace exporter pipeline was installed
  shutdownCalls,    \* how many times shutdown_tracer_provider was called
  logInit,          \* the tracing subscriber is initialised
  logFilter,        \* the filter expression of the subscriber
  otelErrors,       \* how many exporter errors the error handler was called with
  otelLogged,       \* how many of them the subscriber recorded
  settings,         \* the Config built from the two sources
  resolved,         \* the HashMap<String, String> deserialized from it
  client,           \* the VaultClient is constructed
  router,           \* the Router built by app()
  addr,             \* the address the listener is bound to
  state,            \* the server future: "None", "Running", "Draining", "Done"
  branch,           \* the select! branch being polled
  handlers,         \* the signals whose OS handler tokio has installed
  listeners,        \* the signals a live listener of shutdown_signal waits for
  notified,         \* the signals delivered to a live listener and not yet seen
  firedBy,          \* the signal that completed the select!, or NoSig
  delivered,        \* how many signals the operating system has delivered
  inflight,         \* the accepted requests not yet answered
  completed,        \* the answered requests
  path,             \* the path of each accepted request
  response,         \* the response to each answered request
  open,             \* the accepted connections whose task has not finished
  conn              \* the connection each in-flight request came in on

inputs == <<file, env>>
telemetry ==
  <<errorHandler, pipelineInstalls, shutdownCalls, logInit, logFilter, otelErrors,
    otelLogged>>
config == <<settings, resolved>>
server == <<client, router, addr, state>>
signals == <<branch, handlers, listeners, notified, firedBy>>
requests == <<inflight, completed, path, response, open, conn>>
vars == <<pc, exit, error, inputs, telemetry, config, server, signals, delivered, requests>>

NoSettings == [built |-> FALSE, map |-> EmptyMap]

\* The process is running.
Alive == exit = "running"

\* How a run ends: main returns Ok (exit code 0), main returns Err (exit code 1),
\* a panic unwinds main (exit code 101), or a signal with no handler installed
\* terminates the process.
ExitStatuses == {"success", "failure", "panic", "killed"}

NonZeroExit == exit \in {"failure", "panic"}

\* The fatal errors: what main returns as Err, or the message of the panic.
NoError == "none"
Errors ==
  {"TelemetryError", "ConfigError", "DeserializeError", "ClientError", "BindError",
   "SignalRegistrationError"}

Init ==
  /\ pc = "set_error_handler"
  /\ exit = "running"
  /\ error = NoError
  /\ file \in FileInputs
  /\ env \in EnvInputs
  /\ errorHandler = FALSE
  /\ pipelineInstalls = 0
  /\ shutdownCalls = 0
  /\ logInit = FALSE
  /\ logFilter = NoLogFilter
  /\ otelErrors = 0
  /\ otelLogged = 0
  /\ settings = NoSettings
  /\ resolved = NoSettings
  /\ client = FALSE
  /\ router = EmptyRouter
  /\ addr = NoAddr
  /\ state = "None"
  /\ branch = NoSig
  /\ handlers = {}
  /\ listeners = {}
  /\ notified = {}
  /\ firedBy = NoSig
  /\ delivered = 0
  /\ inflight = {}
  /\ completed = {}
  /\ path = [r \in Reqs |-> NoPath]
  /\ response = [r \in Reqs |-> NoResponse]
  /\ open = {}
  /\ conn = [r \in Reqs |-> NoConn]

\* The process ends with the given status and cause; nothing changes any more.
Die(status, cause) ==
  /\ pc' = "exited"
  /\ exit' = status
  /\ error' = cause

\* ------------------------------------------------------------ main: startup
\* main.rs 49-52: register the global error handler (the lock cannot be poisoned
\* at the first statement of main, so the expect never fires).
SetErrorHandler ==
  /\ Alive /\ pc = "set_error_handler"
  /\ errorHandler' = TRUE
  /\ pc' = "install_batch"
  /\ UNCHANGED <<exit, error, inputs, pipelineInstalls, shutdownCalls, logInit, logFilter,
                 otelErrors, otelLogged,
                 config, server, signals, delivered, requests>>

\* main.rs 54-55: new_pipeline().install_batch(Tokio)?
InstallBatch ==
  /\ Alive /\ pc = "install_batch"
  /\ \E ok \in BOOLEAN :
       IF ok
         THEN /\ pipelineInstalls' = pipelineInstalls + 1
              /\ pc' = "log_init"
              /\ UNCHANGED <<exit, error>>
         ELSE /\ Die("failure", "TelemetryError")
              /\ UNCHANGED pipelineInstalls
  /\ UNCHANGED <<inputs, errorHandler, shutdownCalls, logInit, logFilter, otelErrors,
                 otelLogged, config, server,
                 signals, delivered, requests>>

\* main.rs 57-63: tracing_subscriber::registry()...init(), filtered by RUST_LOG
\* or, when it is not set, by the default expression.
LogInit ==
  /\ Alive /\ pc = "log_init"
  /\ logInit' = TRUE
  /\ logFilter' = IF RustLog \in DOMAIN env THEN env[RustLog] ELSE DefaultLogFilter
  /\ pc' = "config_build"
  /\ UNCHANGED <<exit, error, inputs, errorHandler, pipelineInstalls, shutdownCalls,
                 otelErrors, otelLogged, config,
                 server, signals, delivered, requests>>

\* The file source can be read and parsed.
FileUsable(f) == f.kind = "ok"

\* main.rs 65-69: Config::builder().add_source(File).add_source(Environment).build()?
ConfigBuild ==
  /\ Alive /\ pc = "config_build"
  /\ IF FileUsable(file)
       THEN /\ settings' = [built |-> TRUE, map |-> Build(file, env)]
            /\ pc' = "try_deserialize"
            /\ UNCHANGED <<exit, error>>
       ELSE /\ Die("failure", "ConfigError")
            /\ UNCHANGED settings
  /\ UNCHANGED <<inputs, telemetry, resolved, server, signals, delivered, requests>>

\* The `settings` event of main.rs 71 (level INFO, target the crate) is enabled.
SettingsLogged == Enabled(logFilter, Crate, "INFO")

\* main.rs 71-74: tracing::info!("settings {:?}", settings.try_deserialize()?).
\* The call and its `?` are arguments of the macro: they run only when the
\* event is enabled, and otherwise main goes on with nothing deserialized.
TryDeserialize ==
  /\ Alive /\ pc = "try_deserialize"
  /\ IF SettingsLogged
       THEN IF Deserializable(settings.map)
              THEN /\ resolved' = [built |-> TRUE, map |-> settings.map]
                   /\ pc' = "vault_client"
                   /\ UNCHANGED <<exit, error>>
              ELSE /\ Die("failure", "DeserializeError")
                   /\ UNCHANGED resolved
       ELSE /\ pc' = "vault_client"
            /\ UNCHANGED <<exit, error, resolved>>
  /\ UNCHANGED <<inputs, telemetry, settings, server, signals, delivered, requests>>

\* main.rs 76-81: VaultClient::new(VaultClientSettingsBuilder...build()?)?
NewVaultClient ==
  /\ Alive /\ pc = "vault_client"
  /\ \E ok \in BOOLEAN :
       IF ok
         THEN /\ client' = TRUE
              /\ pc' = "app"
              /\ UNCHANGED <<exit, error>>
         ELSE /\ Die("failure", "ClientError")
              /\ UNCHANGED client
  /\ UNCHANGED <<inputs, telemetry, config, router, addr, state, signals, delivered,
                 requests>>

\* main.rs 83: let app = app();
BuildApp ==
  /\ Alive /\ pc = "app"
  /\ router' = app
  /\ pc' = "bind"
  /\ UNCHANGED <<exit, error, inputs, telemetry, config, client, addr, state, signals,
                 delivered, requests>>

\* main.rs 84-88: parse the address, Server::bind (which panics when the bind
\* fails), .serve(...).with_graceful_shutdown(shutdown_signal()): the server
\* future is built in its Running state, and nothing of shutdown_signal has run.
Bind ==
  /\ Alive /\ pc = "bind"
  /\ \E ok \in BOOLEAN :
       IF ok
         THEN /\ addr' = ListenAddr
              /\ state' = "Running"
              /\ pc' = "poll"
              /\ UNCHANGED <<exit, error>>
         ELSE /\ Die("panic", "BindError")
              /\ UNCHANGED <<addr, state>>
  /\ UNCHANGED <<inputs, telemetry, config, client, router, signals, delivered, requests>>

\* ------------------------------------------------------------ shutdown_signal
\* The other branch of the select!.
Other(b) == IF b = "INT" THEN "TERM" ELSE "INT"

\* main.rs 89 with 24-38: the first poll of the server future polls the signal
\* future first; select! starts with a branch chosen at random.
SelectStart ==
  /\ Alive /\ pc = "poll"
  /\ \E b \in Sigs : branch' = b
  /\ pc' = "register"
  /\ UNCHANGED <<exit, error, inputs, telemetry, config, server, handlers, listeners,
                 notified, firedBy, delivered, requests>>

\* main.rs 26-28 (ctrl_c) and 32-33 (terminate): the first poll of a branch
\* installs the signal's handler; a failure panics through the expect.
Register ==
  /\ Alive /\ pc = "register"
  /\ \E ok \in BOOLEAN :
       IF ok
         THEN /\ handlers' = handlers \cup {branch}
              /\ pc' = "listen"
              /\ UNCHANGED <<exit, error>>
         ELSE /\ Die("panic", "SignalRegistrationError")
              /\ UNCHANGED handlers
  /\ UNCHANGED <<inputs, telemetry, config, server, branch, listeners, notified, firedBy,
                 delivered, requests>>

\* main.rs 26 and 32: with the handler installed, the branch's listener is
\* subscribed.  A signal delivered in between meets the handler and no
\* listener: it neither ends the process nor is seen by the select!.
Listen ==
  /\ Alive /\ pc = "listen"
  /\ listeners' = listeners \cup {branch}
  /\ pc' = "recv"
  /\ UNCHANGED <<exit, error, inputs, telemetry, config, server, branch, handlers,
                 notified, firedBy, delivered, requests>>

\* main.rs 38-41: a branch is ready, the select! completes and drops both
\* listeners (the handlers stay installed for the life of the process).
Fire(b) ==
  /\ firedBy' = b
  /\ listeners' = {}
  /\ notified' = {}
  /\ branch' = NoSig
  /\ pc' = "warn"

\* main.rs 27 and 34-35: the branch awaits its signal.  Ready: the select!
\* completes without polling the branches left.  Pending: the next branch is
\* polled, and after the last one the select! is pending and the server future
\* goes on to accept connections.
Recv ==
  /\ Alive /\ pc = "recv"
  /\ IF branch \in notified
       THEN Fire(branch)
       ELSE /\ IF listeners = Sigs
                 THEN branch' = NoSig /\ pc' = "serving"
                 ELSE branch' = Other(branch) /\ pc' = "register"
            /\ UNCHANGED <<listeners, notified, firedBy>>
  /\ UNCHANGED <<exit, error, inputs, telemetry, config, server, handlers, delivered,
                 requests>>

\* A select! that completes although no signal was delivered (a listener's
\* stream ending taken for a signal).
WakeSpurious ==
  /\ Alive /\ pc = "serving"
  /\ \E b \in Sigs : Fire(b)
  /\ UNCHANGED <<exit, error, inputs, telemetry, config, server, handlers, delivered,
                 requests>>

\* main.rs 38-41: a delivered signal wakes the main task; the select! is polled
\* again and completes with a ready branch.
Wake ==
  /\ Alive /\ pc = "serving"
  /\ \E b \in notified : Fire(b)
  /\ UNCHANGED <<exit, error, inputs, telemetry, config, server, handlers, delivered,
                 requests>>

\* main.rs 43: tracing::warn!("signal received, starting graceful shutdown")
WarnSignalReceived ==
  /\ Alive /\ pc = "warn"
  /\ pc' = "shutdown_tracer"
  /\ UNCHANGED <<exit, error, inputs, telemetry, config, server, signals, delivered,
                 requests>>

\* main.rs 44: opentelemetry::global::shutdown_tracer_provider(), the last
\* statement of shutdown_signal: the signal future is ready after it.
ShutdownTracerProvider ==
  /\ Alive /\ pc = "shutdown_tracer"
  /\ shutdownCalls' = shutdownCalls + 1
  /\ pc' = "signal_ready"
  /\ UNCHANGED <<exit, error, inputs, errorHandler, pipelineInstalls, logInit, logFilter,
                 otelErrors, otelLogged,
                 config, server, signals, delivered, requests>>

\* ------------------------------------------------------------ the server future
\* The connection has no request in progress.
Idle(c) == \A r \in inflight : conn[r] # c

\* main.rs 88: with the signal future ready, the server stops accepting (the
\* listener is dropped) and tells every connection to finish: an idle
\* connection closes, a busy one answers its request first.
StartDrain ==
  /\ Alive /\ pc = "signal_ready"
  /\ state' = "Draining"
  /\ open' = {c \in open : ~Idle(c)}
  /\ pc' = "draining"
  /\ UNCHANGED <<exit, error, inputs, telemetry, config, client, router, addr, signals,
                 delivered, inflight, completed, path, response, conn>>

\* A drain that does not wait for the connections.
DrainedAtOnce == TRUE

\* Every connection's task has finished.
Drained == open = {}

\* main.rs 89: the drain completes when the last connection has finished; there
\* is no deadline.
DrainDone ==
  /\ Alive /\ pc = "draining"
  /\ Drained
  /\ state' = "Done"
  /\ pc' = "return_ok"
  /\ UNCHANGED <<exit, error, inputs, telemetry, config, client, router, addr, signals,
                 delivered, requests>>

\* main.rs 89-91: the await yields Ok, main returns Ok(()).
ReturnOk ==
  /\ Alive /\ pc = "return_ok"
  /\ Die("success", NoError)
  /\ UNCHANGED <<inputs, telemetry, config, server, signals, delivered, requests>>

\* The server takes new connections: it is Running and the main task is in its
\* accept loop (the signal future was polled and is pending).  From the select!
\* completing on, the main task does not return to the loop.
Accepting == pc = "serving" /\ state = "Running"

\* main.rs 86-89: the accept loop takes a connection and spawns its task.
\* Connections are numbered in the order they are accepted.
Accept(c) ==
  /\ Alive /\ Accepting
  /\ open = 1..(c - 1)
  /\ open' = open \cup {c}
  /\ UNCHANGED <<pc, exit, error, inputs, telemetry, config, server, signals, delivered,
                 inflight, completed, path, response, conn>>

\* main.rs 86-89: the task of an open connection reads the next request of its
\* client.  The tasks run beside the main task: until the server tells them to
\* finish they take requests whatever the main task is doing, shutdown_signal's
\* last two statements included.  Requests are numbered in the order they
\* arrive.
Request(r, c) ==
  /\ Alive /\ state = "Running"
  /\ c \in open /\ Idle(c)
  /\ inflight \cup completed = 1..(r - 1)
  /\ inflight' = inflight \cup {r}
  /\ conn' = [conn EXCEPT ![r] = c]
  /\ \E p \in Paths : path' = [path EXCEPT ![r] = p]
  /\ UNCHANGED <<pc, exit, error, inputs, telemetry, config, server, signals, delivered,
                 completed, response, open>>

\* main.rs 12-22: the router hands the request to its handler and the handler
\* answers; a connection told to finish closes with the answer, and otherwise
\* stays open for the next request.
Complete(r) ==
  /\ Alive
  /\ r \in inflight
  /\ inflight' = inflight \ {r}
  /\ completed' = completed \cup {r}
  /\ response' = [response EXCEPT ![r] = Serve(router, path[r])]
  /\ open' = IF state = "Draining" THEN open \ {conn[r]} ELSE open
  /\ conn' = [conn EXCEPT ![r] = NoConn]
  /\ UNCHANGED <<pc, exit, error, inputs, telemetry, config, server, signals, delivered,
                 path>>

\* ------------------------------------------------------------ the exporter
\* An error handler that panics on the error it is given.
ExporterErrorPanics ==
  /\ Alive
  /\ pipelineInstalls > 0
  /\ otelErrors < MaxExporterErrors
  /\ otelErrors' = otelErrors + 1
  /\ Die("panic", "TelemetryError")
  /\ UNCHANGED <<inputs, errorHandler, pipelineInstalls, shutdownCalls, logInit, logFilter,
                 otelLogged, config, server, signals, delivered, requests>>

\* main.rs 49-52: a transmission of the batch exporter fails and the global
\* error handler is called with the error: it emits one tracing::error! event,
\* which the subscriber records once it is initialised, its filter allowing.
ExporterError ==
  /\ Alive
  /\ pipelineInstalls > 0
  /\ otelErrors < MaxExporterErrors
  /\ otelErrors' = otelErrors + 1
  /\ otelLogged' =
       IF errorHandler /\ logInit /\ Enabled(logFilter, "opentelemetry", "ERROR")
         THEN otelLogged + 1
         ELSE otelLogged
  /\ UNCHANGED <<pc, exit, error, inputs, errorHandler, pipelineInstalls, shutdownCalls,
                 logInit, logFilter, config, server, signals, delivered, requests>>

\* ------------------------------------------------------------ the operating system
\* A signal is delivered.  With tokio's handler installed it is recorded for the
\* live listener, if any, and otherwise has no effect; with no handler installed
\* its default action terminates the process.
Deliver(s) ==
  /\ Alive
  /\ delivered < MaxSignals
  /\ delivered' = delivered + 1
  /\ IF s \in handlers
       THEN /\ notified' = IF s \in listeners THEN notified \cup {s} ELSE notified
            /\ UNCHANGED <<pc, exit, error>>
       ELSE /\ Die("killed", NoError)
            /\ UNCHANGED notified
  /\ UNCHANGED <<inputs, telemetry, config, server, branch, handlers, listeners, firedBy,
                 requests>>

\* ------------------------------------------------------------ specification
Next ==
  \/ SetErrorHandler
  \/ InstallBatch
  \/ LogInit
  \/ ConfigBuild
  \/ TryDeserialize
  \/ NewVaultClient
  \/ BuildApp
  \/ Bind
  \/ SelectStart
  \/ Register
  \/ Listen
  \/ Recv
  \/ Wake
  \/ WarnSignalReceived
  \/ ShutdownTracerProvider
  \/ StartDrain
  \/ DrainDone
  \/ ReturnOk
  \/ \E c \in Conns : Accept(c)
  \/ \E r \in Reqs, c \in Conns : Request(r, c)
  \/ \E r \in Reqs : Complete(r)
  \/ \E s \in Sigs : Deliver(s)
  \/ ExporterError

\* The runs of the whole program start from the inputs that decide its paths:
\* the file absent, unparseable or with at most a port, and the environment
\* with at most a log filter that disables the events of level INFO.
MainFiles == {f \in FileInputs : "host" \notin DOMAIN f.map}
MainEnvs == {e \in EnvInputs : DOMAIN e \subseteq {RustLog} /\ \A n \in DOMAIN e : e[n] = "warn"}

InitMain == Init /\ file \in MainFiles /\ env \in MainEnvs

Spec == InitMain /\ [][Next]_vars

\* The configuration load alone, from every file and environment of the input
\* sets: main up to the deserialized settings.
NextLoad ==
  \/ SetErrorHandler
  \/ InstallBatch
  \/ LogInit
  \/ ConfigBuild
  \/ TryDeserialize

SpecLoad == Init /\ [][NextLoad]_vars

\* The server's lifecycle state, read off the server future.
Lifecycle ==
  CASE state = "None" -> "Starting"
    [] state = "Running" -> "Serving"
    [] state = "Draining" -> "Draining"
    [] state = "Done" -> "Stopped"

TypeOK ==
  /\ pc \in {"set_error_handler", "install_batch", "log_init", "config_build",
             "try_deserialize", "vault_client", "app", "bind", "poll", "register", "listen",
             "recv",
             "serving", "warn", "shutdown_tracer", "signal_ready", "draining", "return_ok",
             "exited"}
  /\ exit \in {"running"} \cup ExitStatuses
  /\ error \in Errors \cup {NoError}
  /\ file \in FileInputs /\ env \in EnvInputs
  /\ errorHandler \in BOOLEAN /\ logInit \in BOOLEAN /\ client \in BOOLEAN
  /\ pipelineInstalls \in Nat /\ shutdownCalls \in Nat
  /\ otelErrors \in 0..MaxExporterErrors /\ otelLogged \in 0..otelErrors
  /\ logFilter \in {NoLogFilter, DefaultLogFilter} \cup LogFilters
  /\ state \in {"None", "Running", "Draining", "Done"}
  /\ branch \in Sigs \cup {NoSig} /\ firedBy \in Sigs \cup {NoSig}
  /\ handlers \subseteq Sigs /\ listeners \subseteq handlers /\ notified \subseteq listeners
  /\ delivered \in 0..MaxSignals
  /\ inflight \subseteq Reqs /\ completed \subseteq Reqs /\ inflight \cap completed = {}
  /\ path \in [Reqs -> Paths \cup {NoPath}]
  /\ response \in [Reqs -> {health, NotFound, NoResponse}]
  /\ open \subseteq Conns /\ conn \in [Reqs -> Conns \cup {NoConn}]
  /\ \A r \in Reqs : IF r \in inflight THEN conn[r] \in open ELSE conn[r] = NoConn

\* ------------------------------------------------------------ properties

\* C1: telemetry shutdown is invoked only after the server has stopped accepting
\* connections: whenever shutdown_tracer_provider has been called, the server is
\* no longer Serving.
C1_ShutdownOnlyAfterServing == shutdownCalls > 0 => Lifecycle # "Serving"

\* C2: telemetry shutdown is invoked only after every request in flight at the
\* signal has completed: whenever shutdown_tracer_provider has been called, no
\* request is in flight.
C2_ShutdownOnlyAfterDrain == shutdownCalls > 0 => inflight = {}

\* C3: the pipeline is installed at most once, its shutdown is invoked at most
\* once, and exactly once in every run in which the pipeline was installed and
\* main has returned.
C3_ShutdownExactlyOnce ==
  /\ pipelineInstalls <= 1
  /\ shutdownCalls <= 1
  /\ (pipelineInstalls = 1 /\ exit \in {"success", "failure"}) => shutdownCalls = 1

\* C4: once the shutdown sequence has started, a further signal is ignored: it
\* starts no second sequence, calls no second telemetry shutdown, and does not
\* terminate the process.
C4_LaterSignalIgnored ==
  [][(firedBy # NoSig /\ delivered' # delivered) =>
       /\ exit' = exit
       /\ firedBy' = firedBy
       /\ shutdownCalls' = shutdownCalls
       /\ state' = state
       /\ pc' = pc]_vars

\* C5: a signal delivered while the server is Serving never ends the process
\* where it stands, and once a signal has started the shutdown the process ends
\* only in Stopped with no request left in flight.
C5_SignalWhileServingDrains ==
  /\ [][(Lifecycle = "Serving" /\ delivered' # delivered) => exit' = "running"]_vars
  /\ []((firedBy # NoSig /\ exit # "running") => (Lifecycle = "Stopped" /\ inflight = {}))

\* C6: once the shutdown signal has fired (the select! of shutdown_signal has
\* completed), no connection and no request is accepted: the set of open
\* connections and the set of in-flight requests only shrink, and a request
\* leaves the latter only by being completed.
C6_NoAcceptAfterSignal ==
  [][firedBy # NoSig =>
       /\ open' \subseteq open
       /\ inflight' \subseteq inflight
       /\ completed' = completed \cup (inflight \ inflight')]_vars

\* C7: the lifecycle state changes only along Starting -> Serving -> Draining ->
\* Stopped: to Serving on a successful bind, to Draining with a shutdown signal
\* received, to Stopped with no request in flight.
C7_LifecycleOrder ==
  [][\/ Lifecycle' = Lifecycle
     \/ /\ Lifecycle = "Starting" /\ Lifecycle' = "Serving"
        /\ addr = NoAddr /\ addr' # NoAddr
     \/ /\ Lifecycle = "Serving" /\ Lifecycle' = "Draining"
        /\ firedBy \in handlers
     \/ /\ Lifecycle = "Draining" /\ Lifecycle' = "Stopped"
        /\ inflight = {} /\ inflight' = {}]_vars

\* The server has stopped after serving a request.
C7_Witness == Lifecycle = "Stopped" /\ completed # {}

\* C8: a fatal startup error ends the run before Serving with a non-zero exit;
\* the server is Serving only when every startup step has succeeded; the process
\* exits 0 only after the graceful shutdown has completed.
C8_FatalStartupErrors ==
  /\ error \in {"TelemetryError", "ConfigError", "DeserializeError", "ClientError",
                "BindError"}
       => (Lifecycle = "Starting" /\ NonZeroExit)
  /\ (file.kind # "ok" \/ \E k \in DOMAIN settings.map : settings.map[k] = Table)
       => (Lifecycle = "Starting" /\ exit # "success")
  /\ Lifecycle # "Starting"
       => (/\ errorHandler /\ pipelineInstalls = 1 /\ logInit
           /\ settings.built /\ resolved.built /\ client
           /\ DOMAIN router = {"/", "/health"})
  /\ exit = "success" => (Lifecycle = "Stopped" /\ firedBy # NoSig /\ inflight = {})

\* The port number a configuration value stands for.
PortOf(v) == CASE v = "4000" -> 4000 [] v = "5000" -> 5000 [] OTHER -> 0

\* C9: the server listens on the port of the resolved configuration, and on
\* 3000 only when no port is configured.
C9_ListenPortFromConfig ==
  Lifecycle # "Starting" =>
    /\ addr.host = "0.0.0.0"
    /\ addr.port =
         IF "port" \in DOMAIN resolved.map THEN PortOf(resolved.map["port"]) ELSE 3000

\* The environment variable that overrides a key.
OverrideOf(k) == CASE k = "port" -> <<"SPOT", "PORT">> [] k = "host" -> <<"SPOT", "HOST">>

\* C10: the resolved map holds, for a key in both sources, the override's
\* value, and for a key in one source, that source's value, and no other key;
\* a load that fails yields no map.
C10_OverrideWins ==
  /\ \A m \in {settings, resolved} :
       IF m.built
         THEN /\ DOMAIN m.map =
                   DOMAIN file.map \cup {k \in Keys : OverrideOf(k) \in DOMAIN env}
              /\ \A k \in DOMAIN m.map :
                   m.map[k] = IF OverrideOf(k) \in DOMAIN env
                                THEN env[OverrideOf(k)]
                                ELSE file.map[k]
         ELSE m.map = EmptyMap
  /\ error \in {"ConfigError", "DeserializeError"} => ~resolved.built

\* A load with a key in both sources, a key in the file alone, and a variable of
\* another prefix.
C10_Witness ==
  /\ resolved.built
  /\ "port" \in DOMAIN file.map /\ <<"SPOT", "PORT">> \in DOMAIN env
  /\ "host" \in DOMAIN file.map /\ <<"SPOT", "HOST">> \notin DOMAIN env
  /\ <<"OTHER", "PORT">> \in DOMAIN env

\* C11: every answered GET / and GET /health has status 200 and the body
\* {"status":"UP"}, whatever the configuration and the requests before it, and
\* answering a request changes nothing but the request itself.
C11_HealthAlwaysUp ==
  /\ [](\A r \in completed :
          path[r] \in {"/", "/health"} =>
            (response[r].status = 200 /\ response[r].body = "{\"status\":\"UP\"}"))
  /\ [][completed' # completed =>
          UNCHANGED <<pc, exit, error, inputs, telemetry, config, server, signals,
                      delivered>>]_vars

\* Both paths have been answered, with a configuration that is not empty.
C11_Witness ==
  /\ \E r1, r2 \in completed : path[r1] = "/" /\ path[r2] = "/health"
  /\ resolved.map # EmptyMap

\* The startup steps that have run, read off what each one leaves behind.
StepsDone ==
  <<errorHandler, pipelineInstalls > 0, logInit, settings.built /\ resolved.built, client,
    router # EmptyRouter, addr # NoAddr>>

\* C12: the startup steps run in the order error handler, exporter pipeline,
\* logging, configuration, client, router, bind: a step has run only when every
\* earlier step has, and each step runs as the next one of the main task.
C12_StartupOrder ==
  /\ [](\A i, j \in 1..7 : (i < j /\ StepsDone[j]) => StepsDone[i])
  /\ [][\A j \in 1..7 :
          (~StepsDone[j] /\ StepsDone[j]') =>
            \A i \in 1..7 : (i # j => StepsDone[i]' = StepsDone[i])]_vars

\* C13: a failed registration of a signal listener aborts startup before the
\* listener is bound and before the server is Serving.
C13_RegistrationFailureBeforeServing ==
  error = "SignalRegistrationError" => (addr = NoAddr /\ Lifecycle = "Starting")

\* C14: every route is wrapped by both layers, the distributed-trace layer
\* outermost and the access-logging layer inside it (layers are listed
\* innermost first).
C14_EveryRouteTracedThenLogged ==
  router # EmptyRouter =>
    /\ DOMAIN router = {"/", "/health"}
    /\ \A p \in DOMAIN router : router[p] = <<"TraceLayer", "opentelemetry_tracing_layer">>

\* C15: an exporter transmission failure is given to the registered error
\* handler, which at most logs it: the process keeps running where it was, and
\* the server's state and the requests in flight are unchanged.
C15_ExporterErrorOnlyLogged ==
  [][otelErrors' # otelErrors =>
       /\ errorHandler
       /\ otelLogged' \in {otelLogged, otelLogged + 1}
       /\ UNCHANGED <<pc, exit, error, config, server, signals, requests>>]_vars

\* A failure was logged while the server was serving a request.
C15_Witness == otelLogged > 0 /\ Lifecycle = "Serving" /\ inflight # {}

\* C16: no drain deadline: while the server is Draining and a request is still
\* in flight, the server stays in Draining and the process does not end; and
\* once the shutdown signal has fired the process ends only by reaching Stopped
\* and exiting with success.
C16_NoDrainDeadline ==
  /\ [][(Lifecycle = "Draining" /\ inflight' # {}) =>
          (exit' = "running" /\ Lifecycle' = "Draining")]_vars
  /\ [][(firedBy # NoSig /\ exit = "running" /\ exit' # "running") =>
          (exit' = "success" /\ Lifecycle' = "Stopped")]_vars

\* C17: both signal listeners are installed from the moment the listener is
\* bound: whenever the server is Serving, the handlers of both signals are
\* installed.
C17_ListenersInstalledWhenServing == Lifecycle = "Serving" => handlers = Sigs

\* C18: telemetry shutdown is invoked only after a delivered signal completed
\* the select!, and never in a run that ends with a fatal error.
C18_ShutdownOnlyOnSignal ==
  /\ shutdownCalls > 0 => (firedBy \in handlers /\ delivered > 0)
  /\ exit \in {"failure", "panic"} => shutdownCalls = 0

\* A run that installed the pipeline and ended with a fatal error, no signal
\* delivered.
C18_Witness == exit = "failure" /\ pipelineInstalls = 1 /\ delivered = 0

====
